---- MODULE Spec2Model ----
(***************************************************************************)
(* The client-side filter / aggregate logic of the fuel-station back       *)
(* office (report pages over lists fetched from the REST API), and the     *)
(* ledger derivations (running balance, aging buckets, text search) the    *)
(* specification describes.                                                *)
(*                                                                         *)
(* Spec        one report page: its query data, its filter inputs and the  *)
(*             list it keeps in component state, driven by the user's      *)
(*             actions and by React's effects.                             *)
(* SpecLedger  the running balance of one entity as its events arrive.     *)
(* SpecAging   the aging buckets of a growing list of outstanding amounts. *)
(* SpecSearch  the search box of CustomerActivity and CustomerManagement   *)
(*             over a fetched list.                                        *)
(***************************************************************************)
EXTENDS Integers, Sequences, FiniteSets, TLC

(***************************************************************************)
(* Bounds of the model.                                                    *)
(***************************************************************************)
MaxLen == 2          \* records in a fetched list
MaxDay == 2          \* calendar days 1..MaxDay

(***************************************************************************)
(* Values.                                                                 *)
(*                                                                         *)
(* A date field of a record is an instant counted in hours (UTC), or one   *)
(* of two special values: NoDate (null, undefined or ''), BadDate (a       *)
(* non-empty string new Date() cannot parse: an Invalid Date).  A filter   *)
(* bound is a 'yyyy-MM-dd' string: a day number, or NoBound for ''.        *)
(* ISO day strings compare as their day numbers do, and '' is below all.   *)
(***************************************************************************)
HoursPerDay == 24
NoDate == 0
BadDate == -1
NoBound == 0
Hours == {0, 10}
Instants == {d * HoursPerDay + h : d \in 1..MaxDay, h \in Hours}
DateValues == {NoDate, BadDate} \cup Instants
Bounds == 0..MaxDay

\* An optional string: <<>> when the field is null or undefined, <<s>> when
\* it holds the string s (a sequence of one-character strings).
None == <<>>
Some(s) == <<s>>

Upper == <<"A", "B", "C", "T", "X", "Y", "Z">>
Lower == <<"a", "b", "c", "t", "x", "y", "z">>

\* String.prototype.toLowerCase, character by character.
toLowerCase(s) ==
  [i \in 1..Len(s) |->
     IF \E k \in 1..Len(Upper) : Upper[k] = s[i]
       THEN Lower[CHOOSE k \in 1..Len(Upper) : Upper[k] = s[i]]
       ELSE s[i]]

\* String.prototype.includes: sub occurs in s as a contiguous run.
includes(s, sub) ==
  \E i \in 0..(Len(s) - Len(sub)) :
     \A j \in 1..Len(sub) : s[i + j] = sub[j]

\* field?.toLowerCase().includes(term.toLowerCase()): undefined (falsy) when
\* the field is missing.
optIncludes(field, term) ==
  /\ field # None
  /\ includes(toLowerCase(field[1]), toLowerCase(term))

Kinds == {"sale", "payment"}
\* The characters of a kind, where a page also searches that field as text.
kindText(k) ==
  IF k = "sale" THEN <<"s", "a", "l", "e">>
  ELSE <<"p", "a", "y", "m", "e", "n", "t">>
Amounts == {25, 100}
Names == {None, Some(<<"X">>), Some(<<"b">>)}
SearchTerms == {<<>>, <<"x">>}
TypeFilters == {"all"} \cup Kinds

\* A fetched record.  name: the page's searched string field; kind: the field
\* the page's select filter compares; date: the page's date field; amount.
Records == [name : Names, kind : Kinds, date : DateValues, amount : Amounts]

RECURSIVE SeqsUpTo(_, _)
SeqsUpTo(S, n) ==
  IF n = 0 THEN {<<>>}
  ELSE LET shorter == SeqsUpTo(S, n - 1)
       IN shorter \cup {Append(q, x) : q \in {p \in shorter : Len(p) = n - 1}, x \in S}

Pages == {"CustomerActivity", "ExpenseManagement", "PaymentHistory",
          "SalesHistory", "PurchaseOrders", "PriceManagement"}

\* Pages whose filter runs in a useEffect on every change of its inputs.
EffectPages == {"CustomerActivity", "ExpenseManagement", "PaymentHistory"}
\* Pages whose filtered list is a value computed at every render.
RenderPages == {"PurchaseOrders"}
\* Pages whose filter runs only in the Filter button's handler.
ApplyPages == {"SalesHistory", "PriceManagement"}

\* The lists a page's query can return: the empty list, and every record
\* followed by up to MaxLen - 1 records of Companions.  CustomerActivity
\* declares its searched fields, and Product its name, as required strings.
SourceRecords(p) ==
  IF p \in {"CustomerActivity", "PriceManagement"}
    THEN {r \in Records : r.name # None}
    ELSE Records
Companions ==
  [name : {Some(<<"X">>)}, kind : Kinds, date : {HoursPerDay + 10}, amount : Amounts]
SourceLists(p) ==
  {<<>>} \cup {<<r>> \o rest : r \in SourceRecords(p),
                               rest \in SeqsUpTo(Companions, MaxLen - 1)}

VARIABLES
  page,           \* the page that is mounted
  loaded,         \* the page's list query has resolved
  source,         \* the query's data (activities, expenses, payments, ...)
  searchTerm, typeFilter, fromDate, toDate,   \* the filter inputs
  paymentMethodFilter,                        \* PaymentHistory's second select
  filtered,       \* filteredActivities, filteredExpenses, filteredData, ...
  outcome,        \* "ok", or "threw": the last filter run raised an exception
  \* the ledger of one entity (specification SpecLedger)
  events,         \* its LedgerEvents, ascending by timestamp
  openingBalance, \* the balance before the first event
  snapshots,      \* the BalanceSnapshots derived from events
  \* the aging report (specification SpecAging)
  outstanding,    \* the outstanding amounts, each with its age in days
  buckets,        \* the AgingBuckets derived from outstanding
  \* the text search (specification SpecSearch)
  searchPage,     \* the page whose text search runs
  searched,       \* the fetched records
  typed,          \* the text in the search box
  hit,            \* the records the filter effect kept when it last ran
  \* the tank monitoring page (specification SpecTanks)
  tanksLoading,   \* the tanks query is pending: the page shows a skeleton
  tanks,          \* the tanks query's data
  filteredTanks,  \* the copy of tanks the cards and the grid read
  \* the per-entity "last" column (specification SpecHistory)
  historyPage,    \* "PriceManagement" (price history) or "PumpManagement"
  fetchedHistory, \* the list as the server returned it
  history,        \* the query's data array (priceHistory, readings) now
  filteredHistory,\* the array in component state the table reads
  lastRows,       \* per entity, the lastChange / lastReading last rendered
  \* PriceManagement's Confirm Deletion dialog (specification SpecDelete)
  isDeleteDialogOpen, \* the dialog is shown
  itemToDelete,   \* None (null), or the id of the item the dialog names
  deleteType,     \* None (null), or the type handleDeleteConfirmation got
  inFlight,       \* None, or the DELETE request awaiting its response
  requests,       \* every DELETE request sent so far, oldest first
  invalidated,    \* the query keys invalidated so far
  \* the admin panel (specification SpecAdmin)
  role,           \* user?.role of useAuth: "none" when no user is signed in
  users,          \* the users list in component state
  stations,       \* the stations list in component state
  loading,        \* the loading flag
  pending,        \* the requests sent and not yet answered
  \* the theme (specification SpecTheme)
  storedTheme,    \* localStorage 'theme': None while the key is absent
  rootClasses,    \* the theme classes of document.documentElement
  isDarkMode,     \* Settings' isDarkMode state
  settingsOpen,   \* the Settings page is mounted
  prefersDark,    \* matchMedia('(prefers-color-scheme: dark)').matches
  \* SalesHistory's draft sales (specification SpecDrafts)
  allPosDrafts,   \* localStorage 'allPosDrafts': None, or the stored text
  posDraft,       \* localStorage 'posDraft': None, or the stored text
  draftSales,     \* the drafts the page lists
  draftToDelete,  \* None (null), or the id the confirmation names
  draftDeleteConfirmOpen, \* the confirmation dialog is shown
  showDrafts,     \* the drafts rows are shown
  deletedDrafts   \* history: the ids whose deletion was confirmed so far

pageVars == <<page, loaded, source, searchTerm, typeFilter, fromDate, toDate,
              paymentMethodFilter, filtered, outcome>>
ledgerVars == <<events, openingBalance, snapshots>>
agingVars == <<outstanding, buckets>>
searchVars == <<searchPage, searched, typed, hit>>
tankVars == <<tanksLoading, tanks, filteredTanks>>
historyVars == <<historyPage, fetchedHistory, history, filteredHistory,
                 lastRows>>
deleteVars == <<isDeleteDialogOpen, itemToDelete, deleteType, inFlight,
                requests, invalidated>>
adminVars == <<role, users, stations, loading, pending>>
themeVars == <<storedTheme, rootClasses, isDarkMode, settingsOpen,
               prefersDark>>
draftVars == <<allPosDrafts, posDraft, draftSales, draftToDelete,
               draftDeleteConfirmOpen, showDrafts, deletedDrafts>>
vars == <<pageVars, ledgerVars, agingVars, searchVars, tankVars, historyVars,
          deleteVars, adminVars, themeVars, draftVars>>

\* What each specification leaves alone.
notPageVars == <<themeVars, draftVars, adminVars, deleteVars, ledgerVars, agingVars, searchVars, tankVars, historyVars>>
notLedgerVars == <<themeVars, draftVars, adminVars, deleteVars, pageVars, agingVars, searchVars, tankVars, historyVars>>
notAgingVars == <<themeVars, draftVars, adminVars, deleteVars, pageVars, ledgerVars, searchVars, tankVars, historyVars>>
notSearchVars == <<themeVars, draftVars, adminVars, deleteVars, pageVars, ledgerVars, agingVars, tankVars, historyVars>>
notTankVars == <<themeVars, draftVars, adminVars, deleteVars, pageVars, ledgerVars, agingVars, searchVars, historyVars>>
notHistoryVars == <<themeVars, draftVars, adminVars, deleteVars, pageVars, ledgerVars, agingVars, searchVars,
                   tankVars>>
notDeleteVars == <<themeVars, draftVars, adminVars, pageVars, ledgerVars, agingVars, searchVars,
                  tankVars, historyVars>>
notAdminVars == <<themeVars, draftVars, deleteVars, pageVars, ledgerVars, agingVars, searchVars,
                 tankVars, historyVars>>
notThemeVars == <<draftVars, adminVars, deleteVars, pageVars, ledgerVars,
                 agingVars, searchVars, tankVars, historyVars>>
notDraftVars == <<themeVars, adminVars, deleteVars, pageVars, ledgerVars,
                 agingVars, searchVars, tankVars, historyVars>>

\* The current filter inputs as one value.
FilterSpec ==
  [searchTerm |-> searchTerm, typeFilter |-> typeFilter,
   fromDate |-> fromDate, toDate |-> toDate,
   paymentMethodFilter |-> paymentMethodFilter]

(***************************************************************************)
(* Date conversions.                                                       *)
(***************************************************************************)
\* new Date(d).toISOString().split('T')[0] of a valid date: its UTC day.
isoDay(d) == d \div HoursPerDay

\* d ? new Date(d).toISOString().split('T')[0] : ''  raises RangeError
\* ("Invalid time value") exactly when d is a non-empty unparseable string.
isoDayThrows(d) == d = BadDate
isoDayOrEmpty(d) == IF d = NoDate THEN NoBound ELSE isoDay(d)

\* new Date('yyyy-MM-dd'): midnight UTC of that day.
dateOfBound(b) == b * HoursPerDay

(***************************************************************************)
(* The filter predicates, one per page.  XThrows(r, f): evaluating the     *)
(* predicate on record r under filter inputs f raises an exception;        *)
(* XMatches(r, f): it returns true.  A predicate evaluates its three        *)
(* matches... constants before its return statement, so it raises whatever *)
(* the other two are.                                                      *)
(***************************************************************************)
DateFilterOn(f) == f.fromDate # NoBound \/ f.toDate # NoBound

\* let matchesDateRange = true; if (fromDate || toDate) { if (fromDate &&
\* day < fromDate) false; if (toDate && day > toDate) false }, on ISO day
\* strings, the record's being '' when it has no date.
dayWithinBounds(d, f) ==
  IF DateFilterOn(f)
    THEN /\ ~(f.fromDate # NoBound /\ isoDayOrEmpty(d) < f.fromDate)
         /\ ~(f.toDate # NoBound /\ isoDayOrEmpty(d) > f.toDate)
    ELSE TRUE

\* A search that lower-cases the fields and not the search text.
CustomerActivityMatchesSearchAsTyped(activity, term) ==
  \/ includes(toLowerCase(activity.customerName), term)
  \/ includes(toLowerCase(activity.referenceNumber), term)
  \/ includes(toLowerCase(activity.description), term)

\* CustomerActivity matchesSearch: customerName, referenceNumber and
\* description are required strings.
CustomerActivityMatchesSearch(activity, term) ==
  \/ includes(toLowerCase(activity.customerName), toLowerCase(term))
  \/ includes(toLowerCase(activity.referenceNumber), toLowerCase(term))
  \/ includes(toLowerCase(activity.description), toLowerCase(term))

\* CustomerManagement handleApplyFilters' matchesSearch: the Filter button.
CustomerManagementApplyMatchesSearch(customer, term) ==
  \/ includes(toLowerCase(customer.name), toLowerCase(term))
  \/ optIncludes(customer.gstNumber, term)
  \/ optIncludes(customer.contactPhone, term)
  \/ optIncludes(customer.contactEmail, term)
  \/ optIncludes(customer.address, term)

\* CustomerManagement's filter useEffect's matchesSearch: every keystroke.
CustomerManagementEffectMatchesSearch(customer, term) ==
  \/ includes(toLowerCase(customer.name), toLowerCase(term))
  \/ optIncludes(customer.gstNumber, term)
  \/ optIncludes(customer.contactPhone, term)

\* CustomerActivity: the filter useEffect's predicate.  A modelled activity
\* carries the same text in its three searched fields.
CustomerActivityThrows(r, f) == DateFilterOn(f) /\ isoDayThrows(r.date)
CustomerActivityMatchesDateRange(r, f) == dayWithinBounds(r.date, f)
CustomerActivityMatchesType(r, f) == f.typeFilter = "all" \/ r.kind = f.typeFilter
CustomerActivityMatches(r, f) ==
  LET matchesSearch ==
        CustomerActivityMatchesSearch(
          [customerName |-> r.name[1], referenceNumber |-> r.name[1],
           description |-> r.name[1]], f.searchTerm)
      matchesType == CustomerActivityMatchesType(r, f)
      matchesDateRange == CustomerActivityMatchesDateRange(r, f)
  IN matchesSearch /\ matchesType /\ matchesDateRange

\* ExpenseManagement: the filter useEffect's predicate.
ExpenseManagementThrows(r, f) == DateFilterOn(f) /\ isoDayThrows(r.date)
ExpenseManagementMatchesDateRange(r, f) ==
  LET expenseDate == isoDayOrEmpty(r.date)
  IN IF f.fromDate # NoBound /\ f.toDate # NoBound
       THEN expenseDate >= f.fromDate /\ expenseDate <= f.toDate
     ELSE IF f.fromDate # NoBound THEN expenseDate >= f.fromDate
     ELSE IF f.toDate # NoBound THEN expenseDate <= f.toDate
     ELSE TRUE
ExpenseManagementMatches(r, f) ==
  LET matchesSearch == optIncludes(r.name, f.searchTerm)
      matchesCategory == f.typeFilter = "all" \/ r.kind = f.typeFilter
      matchesDateRange == ExpenseManagementMatchesDateRange(r, f)
  IN matchesSearch /\ matchesCategory /\ matchesDateRange

\* payment.paymentMethod: every modelled payment is a cash payment.
paymentMethod(r) == "cash"

\* PaymentHistory: the filter useEffect's predicate.  It reads
\* paymentMethodFilter and never typeFilter.
PaymentHistoryThrows(r, f) == DateFilterOn(f) /\ isoDayThrows(r.date)
PaymentHistoryMatchesDateRange(r, f) == dayWithinBounds(r.date, f)
PaymentHistoryMatches(r, f) ==
  LET matchesSearch == optIncludes(r.name, f.searchTerm)
      matchesMethod ==
        f.paymentMethodFilter = "all" \/ paymentMethod(r) = f.paymentMethodFilter
      matchesDateRange == PaymentHistoryMatchesDateRange(r, f)
  IN matchesSearch /\ matchesMethod /\ matchesDateRange

\* SalesHistory handleApplyFilter's predicate.  The customers query holds no
\* customer, so customers.find(...) is undefined.  Dates are compared as Date
\* objects; every comparison with an Invalid Date is false.
SalesHistoryThrows(r, f) == FALSE
SalesHistoryMatchesDateRange(r, f) ==
  IF DateFilterOn(f)
    THEN IF r.date # NoDate
           THEN /\ ~(/\ f.fromDate # NoBound
                     /\ r.date # BadDate
                     /\ dateOfBound(f.fromDate) > r.date)
                /\ ~(/\ f.toDate # NoBound
                     /\ r.date # BadDate
                     /\ dateOfBound(f.toDate) < r.date)
           ELSE FALSE
    ELSE TRUE
SalesHistoryMatches(r, f) ==
  LET matchesSearch == optIncludes(r.name, f.searchTerm) \/ FALSE
      matchesPaymentMethod == f.typeFilter = "all" \/ r.kind = f.typeFilter
      matchesDateRange == SalesHistoryMatchesDateRange(r, f)
  IN matchesSearch /\ matchesPaymentMethod /\ matchesDateRange

\* PurchaseOrders: the predicate of filteredOrders.
PurchaseOrdersThrows(r, f) == DateFilterOn(f) /\ isoDayThrows(r.date)
PurchaseOrdersMatchesDateRange(r, f) ==
  LET orderDate == isoDayOrEmpty(r.date)
  IN IF f.fromDate # NoBound /\ f.toDate # NoBound
       THEN orderDate >= f.fromDate /\ orderDate <= f.toDate
     ELSE IF f.fromDate # NoBound THEN orderDate >= f.fromDate
     ELSE IF f.toDate # NoBound THEN orderDate <= f.toDate
     ELSE TRUE
PurchaseOrdersMatches(r, f) ==
  LET matchesSearch == optIncludes(r.name, f.searchTerm)
      matchesStatus == f.typeFilter = "all" \/ r.kind = f.typeFilter
      matchesDateRange == PurchaseOrdersMatchesDateRange(r, f)
  IN matchesSearch /\ matchesStatus /\ matchesDateRange

\* PriceManagement handleApplyFilters' predicate on products; the category is
\* searched as text too.
PriceManagementThrows(r, f) == DateFilterOn(f) /\ isoDayThrows(r.date)
PriceManagementMatchesDateRange(r, f) == dayWithinBounds(r.date, f)
PriceManagementMatches(r, f) ==
  LET matchesSearch ==
        \/ optIncludes(r.name, f.searchTerm)
        \/ optIncludes(Some(kindText(r.kind)), f.searchTerm)
      matchesProduct == f.typeFilter = "all" \/ r.kind = f.typeFilter
      matchesDateRange == PriceManagementMatchesDateRange(r, f)
  IN matchesSearch /\ matchesProduct /\ matchesDateRange

PageThrows(p, r, f) ==
  CASE p = "CustomerActivity" -> CustomerActivityThrows(r, f)
    [] p = "ExpenseManagement" -> ExpenseManagementThrows(r, f)
    [] p = "PaymentHistory" -> PaymentHistoryThrows(r, f)
    [] p = "SalesHistory" -> SalesHistoryThrows(r, f)
    [] p = "PurchaseOrders" -> PurchaseOrdersThrows(r, f)
    [] p = "PriceManagement" -> PriceManagementThrows(r, f)

PageMatches(p, r, f) ==
  CASE p = "CustomerActivity" -> CustomerActivityMatches(r, f)
    [] p = "ExpenseManagement" -> ExpenseManagementMatches(r, f)
    [] p = "PaymentHistory" -> PaymentHistoryMatches(r, f)
    [] p = "SalesHistory" -> SalesHistoryMatches(r, f)
    [] p = "PurchaseOrders" -> PurchaseOrdersMatches(r, f)
    [] p = "PriceManagement" -> PriceManagementMatches(r, f)

PageMatchesDateRange(p, r, f) ==
  CASE p = "CustomerActivity" -> CustomerActivityMatchesDateRange(r, f)
    [] p = "ExpenseManagement" -> ExpenseManagementMatchesDateRange(r, f)
    [] p = "PaymentHistory" -> PaymentHistoryMatchesDateRange(r, f)
    [] p = "SalesHistory" -> SalesHistoryMatchesDateRange(r, f)
    [] p = "PurchaseOrders" -> PurchaseOrdersMatchesDateRange(r, f)
    [] p = "PriceManagement" -> PriceManagementMatchesDateRange(r, f)

\* list.filter(predicate): the first record on which the predicate raises
\* aborts the whole call.
FilterThrows(p, list, f) == \E i \in 1..Len(list) : PageThrows(p, list[i], f)
Filter(p, list, f) == SelectSeq(list, LAMBDA r : PageMatches(p, r, f))

(***************************************************************************)
(* The page as a state machine.                                            *)
(***************************************************************************)
DefaultFilters ==
  [searchTerm |-> <<>>, typeFilter |-> "all", fromDate |-> NoBound,
   toDate |-> NoBound, paymentMethodFilter |-> "all"]

\* What one run of a filter effect leaves, as a function of the query data,
\* the filter inputs and the list in state before the run (prev): an
\* exception sets nothing; ExpenseManagement sets state only when the new
\* list differs from the one in state.
EffectOutput(p, list, f, prev) ==
  IF FilterThrows(p, list, f)
    THEN [filtered |-> prev, outcome |-> "threw"]
  ELSE LET computed == Filter(p, list, f)
       IN [filtered |-> IF p = "ExpenseManagement" /\ computed = prev
                          THEN prev ELSE computed,
           outcome |-> "ok"]

\* A Filter handler that adds its matches to the list already in state.
ApplyOutputAccumulating(p, list, f, prev) ==
  IF FilterThrows(p, list, f)
    THEN [filtered |-> prev, outcome |-> "threw"]
  ELSE [filtered |-> prev \o Filter(p, list, f), outcome |-> "ok"]

\* What one run of the Filter button's handler leaves.  PriceManagement
\* returns early with the whole list when every input is at its default.
ApplyOutput(p, list, f, prev) ==
  IF p = "PriceManagement" /\ f = DefaultFilters
    THEN [filtered |-> list, outcome |-> "ok"]
  ELSE IF FilterThrows(p, list, f)
    THEN [filtered |-> prev, outcome |-> "threw"]
  ELSE [filtered |-> Filter(p, list, f), outcome |-> "ok"]

\* The page is mounted, its query still pending: data defaults to [].
PageInit ==
  /\ page \in Pages
  /\ loaded = FALSE
  /\ source = <<>>
  /\ searchTerm = DefaultFilters.searchTerm
  /\ typeFilter = DefaultFilters.typeFilter
  /\ fromDate = DefaultFilters.fromDate
  /\ toDate = DefaultFilters.toDate
  /\ paymentMethodFilter = DefaultFilters.paymentMethodFilter
  /\ filtered = <<>>
  /\ outcome = "ok"

\* An exception raised in an effect or during render unmounts the page; one
\* raised in a click handler leaves it mounted.
Mounted == ~(outcome = "threw" /\ page \in EffectPages \cup RenderPages)

\* What the render after a state change leaves in filtered and outcome:
\* list and f are the query data and filter inputs after the change;
\* sourceChanged, filterChanged and typeOnly say what the change touched.
\*  - effect and render pages run their filter again (PaymentHistory's effect
\*    does not list typeFilter among its dependencies);
\*  - SalesHistory runs nothing;
\*  - PriceManagement's products effect copies a non-empty products list.
Rerender(list, f, sourceChanged, typeOnly) ==
  IF page \in RenderPages
       \/ (page \in EffectPages /\ ~(page = "PaymentHistory" /\ typeOnly))
    THEN LET out == EffectOutput(page, list, f, filtered)
         IN /\ filtered' = out.filtered
            /\ outcome' = out.outcome
  ELSE IF page = "PriceManagement" /\ sourceChanged /\ Len(list) > 0
    THEN /\ filtered' = list
         /\ UNCHANGED outcome
  ELSE UNCHANGED <<filtered, outcome>>

\* The list query resolves with the server's records.
QueryLoaded(list) ==
  /\ Mounted
  /\ loaded' = TRUE
  /\ source' = list
  /\ Rerender(list, FilterSpec, TRUE, FALSE)
  /\ UNCHANGED notPageVars
  /\ UNCHANGED <<page, searchTerm, typeFilter, fromDate, toDate, paymentMethodFilter>>

LoadQuery == ~loaded /\ \E list \in SourceLists(page) : QueryLoaded(list)

\* A record is deleted (the page's delete mutation succeeds, or another
\* client deletes it), the query is invalidated and refetched.
DeleteRecord(i) ==
  /\ Mounted
  /\ loaded
  /\ i \in 1..Len(source)
  /\ LET list == [k \in 1..(Len(source) - 1) |->
                    IF k < i THEN source[k] ELSE source[k + 1]]
     IN /\ source' = list
        /\ Rerender(list, FilterSpec, TRUE, FALSE)
  /\ UNCHANGED notPageVars
  /\ UNCHANGED <<page, loaded, searchTerm, typeFilter, fromDate, toDate,
                 paymentMethodFilter>>

\* onSearchChange={setSearchTerm}
SetSearchTerm(s) ==
  /\ Mounted
  /\ s # searchTerm
  /\ searchTerm' = s
  /\ Rerender(source, [FilterSpec EXCEPT !.searchTerm = s], FALSE, FALSE)
  /\ UNCHANGED notPageVars
  /\ UNCHANGED <<page, loaded, source, typeFilter, fromDate, toDate,
                 paymentMethodFilter>>

\* onStatusChange={setTypeFilter} (setCategoryFilter, setPaymentFilter, ...)
SetTypeFilter(t) ==
  /\ Mounted
  /\ t # typeFilter
  /\ typeFilter' = t
  /\ Rerender(source, [FilterSpec EXCEPT !.typeFilter = t], FALSE, TRUE)
  /\ UNCHANGED notPageVars
  /\ UNCHANGED <<page, loaded, source, searchTerm, fromDate, toDate,
                 paymentMethodFilter>>

\* onFromDateChange={setFromDate}
SetFromDate(d) ==
  /\ Mounted
  /\ d # fromDate
  /\ fromDate' = d
  /\ Rerender(source, [FilterSpec EXCEPT !.fromDate = d], FALSE, FALSE)
  /\ UNCHANGED notPageVars
  /\ UNCHANGED <<page, loaded, source, searchTerm, typeFilter, toDate,
                 paymentMethodFilter>>

\* onToDateChange={setToDate}
SetToDate(d) ==
  /\ Mounted
  /\ d # toDate
  /\ toDate' = d
  /\ Rerender(source, [FilterSpec EXCEPT !.toDate = d], FALSE, FALSE)
  /\ UNCHANGED notPageVars
  /\ UNCHANGED <<page, loaded, source, searchTerm, typeFilter, fromDate,
                 paymentMethodFilter>>

\* The Filter button.  SalesHistory handleApplyFilter; PriceManagement
\* handleApplyFilters (an exception leaves the handler before any setState).
\* On the other pages the handler is empty.
ApplyFilters ==
  /\ Mounted
  /\ page \in ApplyPages
  /\ LET out == ApplyOutput(page, source, FilterSpec, filtered)
     IN /\ filtered' = out.filtered
        /\ outcome' = out.outcome
  /\ UNCHANGED notPageVars
  /\ UNCHANGED <<page, loaded, source, searchTerm, typeFilter, fromDate, toDate,
                 paymentMethodFilter>>

\* The Clear button: handleClearFilters (handleResetFilters).  SalesHistory
\* also empties filteredData.
ClearFilters ==
  /\ Mounted
  /\ searchTerm' = DefaultFilters.searchTerm
  /\ typeFilter' = DefaultFilters.typeFilter
  /\ fromDate' = DefaultFilters.fromDate
  /\ toDate' = DefaultFilters.toDate
  /\ paymentMethodFilter' = DefaultFilters.paymentMethodFilter
  /\ IF page = "SalesHistory"
       THEN /\ filtered' = <<>>
            /\ UNCHANGED outcome
       ELSE Rerender(source, DefaultFilters, FALSE, FALSE)
  /\ UNCHANGED notPageVars
  /\ UNCHANGED <<page, loaded, source>>

(***************************************************************************)
(* What the page shows.                                                    *)
(***************************************************************************)
\* The rows of the table.  SalesHistory: displayedSales.
displayed ==
  IF page = "SalesHistory"
    THEN IF Len(filtered) > 0 THEN filtered ELSE source
    ELSE filtered

\* The rows of a printed report: dataToUse of handlePrintReport, on
\* SalesHistory and ExpenseManagement.  The handler reads the component
\* state and changes none of it.
dataToUse == IF Len(filtered) > 0 THEN filtered ELSE source

\* The rows of SalesHistory's exportToExcel: one CSV line per record of
\* filteredData.
exportedRows == filtered

RECURSIVE SumAmounts(_)
\* list.reduce((sum, r) => sum + r.amount, 0)
SumAmounts(list) ==
  IF list = <<>> THEN 0
  ELSE SumAmounts(SubSeq(list, 1, Len(list) - 1)) + list[Len(list)].amount

OfKind(list, k) == SelectSeq(list, LAMBDA r : r.kind = k)

\* The summary cards over the displayed rows.
\*  summaryCount   SalesHistory todaysSales, PurchaseOrders totalOrders
\*  summaryTotal   SalesHistory totalAmount, PurchaseOrders totalValue
\*  summaryByType  CustomerActivity totalSales and totalPayments
summaryCount == Len(displayed)
summaryTotal == SumAmounts(displayed)
summaryByType == [k \in Kinds |-> SumAmounts(OfKind(displayed, k))]

Next ==
  \/ LoadQuery
  \/ \E i \in 1..MaxLen : DeleteRecord(i)
  \/ \E s \in SearchTerms : SetSearchTerm(s)
  \/ \E t \in TypeFilters : SetTypeFilter(t)
  \/ \E d \in Bounds : SetFromDate(d)
  \/ \E d \in Bounds : SetToDate(d)
  \/ ApplyFilters
  \/ ClearFilters

\* The parts of the state a specification does not use stay as they are here.
PageIdle ==
  /\ page = "none"
  /\ loaded = FALSE
  /\ source = <<>>
  /\ searchTerm = <<>>
  /\ typeFilter = "all"
  /\ fromDate = NoBound
  /\ toDate = NoBound
  /\ paymentMethodFilter = "all"
  /\ filtered = <<>>
  /\ outcome = "ok"
LedgerIdle == events = <<>> /\ openingBalance = 0 /\ snapshots = <<>>
AgingIdle == outstanding = <<>> /\ buckets = <<>>
SearchIdle ==
  /\ searchPage = "none"
  /\ searched = <<>>
  /\ typed = <<>>
  /\ hit = <<>>
TankIdle == tanksLoading = TRUE /\ tanks = <<>> /\ filteredTanks = <<>>
HistoryIdle ==
  /\ historyPage = "none"
  /\ fetchedHistory = <<>>
  /\ history = <<>>
  /\ filteredHistory = <<>>
  /\ lastRows = <<>>
DeleteIdle ==
  /\ isDeleteDialogOpen = FALSE
  /\ itemToDelete = None
  /\ deleteType = None
  /\ inFlight = None
  /\ requests = <<>>
  /\ invalidated = {}
AdminIdle ==
  /\ role = "none"
  /\ users = <<>>
  /\ stations = <<>>
  /\ loading = TRUE
  /\ pending = {}
ThemeIdle ==
  /\ storedTheme = None
  /\ rootClasses = {}
  /\ isDarkMode = FALSE
  /\ settingsOpen = FALSE
  /\ prefersDark = FALSE
DraftIdle ==
  /\ allPosDrafts = None
  /\ posDraft = None
  /\ draftSales = <<>>
  /\ draftToDelete = None
  /\ draftDeleteConfirmOpen = FALSE
  /\ showDrafts = TRUE
  /\ deletedDrafts = {}

\* Every part of the state but the one named.
IdleButPage ==
  ThemeIdle /\ DraftIdle /\ AdminIdle /\ DeleteIdle /\ LedgerIdle /\ AgingIdle /\ SearchIdle /\ TankIdle /\ HistoryIdle
IdleButLedger ==
  ThemeIdle /\ DraftIdle /\ AdminIdle /\ DeleteIdle /\ PageIdle /\ AgingIdle /\ SearchIdle /\ TankIdle /\ HistoryIdle
IdleButAging ==
  ThemeIdle /\ DraftIdle /\ AdminIdle /\ DeleteIdle /\ PageIdle /\ LedgerIdle /\ SearchIdle /\ TankIdle /\ HistoryIdle
IdleButSearch ==
  ThemeIdle /\ DraftIdle /\ AdminIdle /\ DeleteIdle /\ PageIdle /\ LedgerIdle /\ AgingIdle /\ TankIdle /\ HistoryIdle
IdleButTanks ==
  ThemeIdle /\ DraftIdle /\ AdminIdle /\ DeleteIdle /\ PageIdle /\ LedgerIdle /\ AgingIdle /\ SearchIdle /\ HistoryIdle
IdleButHistory ==
  ThemeIdle /\ DraftIdle /\ AdminIdle /\ DeleteIdle /\ PageIdle /\ LedgerIdle /\ AgingIdle /\ SearchIdle /\ TankIdle
IdleButDelete ==
  ThemeIdle /\ DraftIdle /\ AdminIdle /\ PageIdle /\ LedgerIdle /\ AgingIdle /\ SearchIdle /\ TankIdle /\ HistoryIdle
IdleButAdmin ==
  ThemeIdle /\ DraftIdle /\ DeleteIdle /\ PageIdle /\ LedgerIdle /\ AgingIdle /\ SearchIdle /\ TankIdle
    /\ HistoryIdle
IdleButTheme ==
  DraftIdle /\ AdminIdle /\ DeleteIdle /\ PageIdle /\ LedgerIdle /\ AgingIdle
    /\ SearchIdle /\ TankIdle /\ HistoryIdle
IdleButDrafts ==
  ThemeIdle /\ AdminIdle /\ DeleteIdle /\ PageIdle /\ LedgerIdle /\ AgingIdle
    /\ SearchIdle /\ TankIdle /\ HistoryIdle

Init == PageInit /\ IdleButPage

Spec == Init /\ [][Next]_vars

(***************************************************************************)
(* The tank monitoring page.  filteredTanks is a copy of the tanks query's *)
(* data (the page's handleApplyFilters is empty); the summary cards are    *)
(* computed from it at every render once the query has resolved.           *)
(***************************************************************************)
MaxTanks == 3
Capacities == {100, 200}
Stocks == {0, 50, 100}

\* A Tank: capacity and currentStock, parsed.
Tanks == [capacity : Capacities, currentStock : Stocks]

\* The value of 0 / 0.
NaN == -1

RECURSIVE SumField(_, _)
\* list.reduce((sum, t) => sum + parseFloat(t[field] || '0'), 0)
SumField(list, field) ==
  IF list = <<>> THEN 0
  ELSE SumField(SubSeq(list, 1, Len(list) - 1), field) + list[Len(list)][field]

totalCapacity == SumField(filteredTanks, "capacity")
totalStock == SumField(filteredTanks, "currentStock")

\* Math.round((totalStock / totalCapacity) * 100): 0 / 0 is NaN and
\* Math.round(NaN) is NaN; otherwise the nearest integer, halves upwards.
overallFillLevel ==
  IF totalCapacity = 0 /\ totalStock = 0 THEN NaN
  ELSE (200 * totalStock + totalCapacity) \div (2 * totalCapacity)

\* The tanks query is pending; useState([]) for filteredTanks.
TankInit ==
  /\ tanksLoading = TRUE
  /\ tanks = <<>>
  /\ filteredTanks = <<>>

\* The tanks query resolves; the [tanks] effect copies its data.
TanksLoaded(list) ==
  /\ tanksLoading
  /\ tanksLoading' = FALSE
  /\ tanks' = list
  /\ filteredTanks' = tanks'
  /\ UNCHANGED notTankVars

\* createTankMutation succeeds: the query is invalidated and refetched with
\* the new tank, and the [tanks] effect copies it.
CreateTank(t) ==
  /\ ~tanksLoading
  /\ Len(tanks) < MaxTanks
  /\ tanks' = Append(tanks, t)
  /\ filteredTanks' = tanks'
  /\ UNCHANGED <<tanksLoading, notTankVars>>

NextTanks ==
  \/ \E list \in SeqsUpTo(Tanks, MaxTanks - 1) : TanksLoaded(list)
  \/ \E t \in Tanks : CreateTank(t)

InitTanks == TankInit /\ IdleButTanks

SpecTanks == InitTanks /\ [][NextTanks]_vars

(***************************************************************************)
(* The "last" column of the product table of PriceManagement (lastChange,  *)
(* from the price history) and of the pump table of PumpManagement         *)
(* (lastReading, from the pump readings).  The order in which the server   *)
(* returns a list is not fixed by the client, so a fetch may resolve with  *)
(* the records in any order.  Array methods are modelled with their effect *)
(* on the array they are called on: receiver is that array after the call, *)
(* result is what the call returns.                                        *)
(***************************************************************************)
MaxHistory == 3
Entities == {1, 2}
ChangeDates == {1, 2}
HistoryPages == {"PriceManagement", "PumpManagement"}

\* The lists a history query can return; id is the record's place in it.
HistoryLists ==
  {[i \in 1..Len(q) |->
      [id |-> i, entity |-> q[i].entity, changeDate |-> q[i].changeDate]] :
     q \in SeqsUpTo([entity : Entities, changeDate : ChangeDates], MaxHistory)}

\* Array.prototype.filter: a new array, the receiver untouched.
jsFilter(a, keep(_)) == [receiver |-> a, result |-> SelectSeq(a, keep)]

\* (a, b) => new Date(b.changeDate).getTime() - new Date(a.changeDate).getTime()
byChangeDateDescending(a, b) == b.changeDate - a.changeDate

RECURSIVE stableSort(_)
\* The array sorted by byChangeDateDescending, equal elements in their
\* original order: each element is put after the elements already placed
\* that do not sort after it.
stableSort(a) ==
  IF a = <<>> THEN <<>>
  ELSE LET placed == stableSort(SubSeq(a, 1, Len(a) - 1))
           x == a[Len(a)]
           k == Cardinality({i \in 1..Len(placed) :
                               byChangeDateDescending(placed[i], x) <= 0})
       IN SubSeq(placed, 1, k) \o <<x>> \o SubSeq(placed, k + 1, Len(placed))

\* Array.prototype.sort: sorts the receiver in place and returns it.
jsSort(a) == [receiver |-> stableSort(a), result |-> stableSort(a)]

\* Array.prototype.pop: removes the receiver's last element and returns it
\* (undefined, here None, on an empty array).
jsPop(a) ==
  IF a = <<>> THEN [receiver |-> a, result |-> None]
  ELSE [receiver |-> SubSeq(a, 1, Len(a) - 1), result |-> Some(a[Len(a)])]

\* A lastChange that sorts the history array itself before filtering.
lastChangeSortingInPlace(h, productId) ==
  LET sorted == jsSort(h)
      own == jsFilter(sorted.result, LAMBDA x : x.entity = productId)
  IN [array |-> sorted.receiver,
      value |-> IF own.result = <<>> THEN None ELSE Some(own.result[1])]

\* filteredHistory.filter(h => h.productId === product.id).sort(...)[0]:
\* array is filteredHistory after the expression, value what it yields.
lastChange(h, productId) ==
  LET own == jsFilter(h, LAMBDA x : x.entity = productId)
      sorted == jsSort(own.result)
  IN [array |-> own.receiver,
      value |-> IF sorted.result = <<>> THEN None ELSE Some(sorted.result[1])]

\* filteredReadings.filter(r => r.pumpId === pump.id).pop()
lastReading(h, pumpId) ==
  LET own == jsFilter(h, LAMBDA x : x.entity = pumpId)
      popped == jsPop(own.result)
  IN [array |-> own.receiver, value |-> popped.result]

lastOf(p, h, e) ==
  IF p = "PriceManagement" THEN lastChange(h, e) ELSE lastReading(h, e)

\* The table body: one row per product (pump), in order.
RenderRows(p, h) ==
  LET first == lastOf(p, h, 1)
      second == lastOf(p, first.array, 2)
  IN [array |-> second.array, rows |-> <<first.value, second.value>>]

\* PriceManagement's effect stores the query's array itself in
\* filteredHistory; PumpManagement's effect stores a filtered copy.
Aliased == historyPage = "PriceManagement"

HistoryInit ==
  /\ historyPage \in HistoryPages
  /\ fetchedHistory = <<>>
  /\ history = <<>>
  /\ filteredHistory = <<>>
  /\ lastRows = <<None, None>>

\* The history query resolves (first fetch, or refetch after a mutation
\* invalidated it); the effect sets filteredHistory (every filter at its
\* default) and the table renders.
FetchHistory(list) ==
  /\ fetchedHistory' = list
  /\ LET r == RenderRows(historyPage, list)
     IN /\ filteredHistory' = r.array
        /\ history' = IF Aliased THEN r.array ELSE list
        /\ lastRows' = r.rows
  /\ UNCHANGED <<historyPage, notHistoryVars>>

\* The page renders again (a dialog opens, a form field changes).
RenderAgain ==
  /\ LET r == RenderRows(historyPage, filteredHistory)
     IN /\ filteredHistory' = r.array
        /\ history' = IF Aliased THEN r.array ELSE history
        /\ lastRows' = r.rows
  /\ UNCHANGED <<historyPage, fetchedHistory, notHistoryVars>>

NextHistory ==
  \/ \E list \in HistoryLists : FetchHistory(list)
  \/ RenderAgain

InitHistory == HistoryInit /\ IdleButHistory

SpecHistory == InitHistory /\ [][NextHistory]_vars

(***************************************************************************)
(* The running-balance calculator.  The server computes the balance field  *)
(* of the customer's activities; its code is not among the sources, so the *)
(* calculator is modelled from its description: a left fold over the       *)
(* customer's events in timestamp order, starting from the opening         *)
(* balance, yielding one snapshot per event.                               *)
(***************************************************************************)
MaxEvents == 3
MaxTime == 3
OpeningBalances == {0, 50}
RawAmounts == {25, 40, 100}
LedgerKinds == {"sale", "charge", "payment", "credit"}

\* A domain record before normalisation: its date, its kind tag and its
\* unsigned amount.
LedgerRecords ==
  [timestamp : 1..MaxTime, kind : LedgerKinds, amount : RawAmounts]

\* A sign rule that leaves every amount as recorded.
signedAmountAsRecorded(kind, amount) == amount

\* The sign the kind assigns: a sale or charge increases what the entity
\* owes, a payment or credit decreases it.
signedAmount(kind, amount) ==
  IF kind \in {"sale", "charge"} THEN amount ELSE 0 - amount

\* The event normalizer on one record: a LedgerEvent of timestamp, kind and
\* signed amount.
EventNormalizer(r) ==
  [timestamp |-> r.timestamp, kind |-> r.kind,
   signedAmount |-> signedAmount(r.kind, r.amount)]

LedgerEvents == {EventNormalizer(r) : r \in LedgerRecords}

\* A BalanceSnapshot: the event it follows and the balance after it.
BalanceSnapshot(e, b) == [afterEvent |-> e, runningBalance |-> b]

\* A fold that forgets the opening balance.
RECURSIVE BalanceCalculatorFromZero(_, _)
BalanceCalculatorFromZero(evs, opening) ==
  IF evs = <<>> THEN <<>>
  ELSE LET before == BalanceCalculatorFromZero(SubSeq(evs, 1, Len(evs) - 1),
                                               opening)
           prev == IF before = <<>> THEN 0
                   ELSE before[Len(before)].runningBalance
           e == evs[Len(evs)]
       IN  Append(before, BalanceSnapshot(e, prev + e.signedAmount))

\* A fold that yields no snapshot for an event that lowers the balance.
RECURSIVE BalanceCalculatorIncreasesOnly(_, _)
BalanceCalculatorIncreasesOnly(evs, opening) ==
  IF evs = <<>> THEN <<>>
  ELSE LET before == BalanceCalculatorIncreasesOnly(
                       SubSeq(evs, 1, Len(evs) - 1), opening)
           prev == IF before = <<>> THEN opening
                   ELSE before[Len(before)].runningBalance
           e == evs[Len(evs)]
       IN  IF e.signedAmount < 0 THEN before
           ELSE Append(before, BalanceSnapshot(e, prev + e.signedAmount))

\* The calculator: the snapshots of the events, left to right.
RECURSIVE BalanceCalculator(_, _)
BalanceCalculator(evs, opening) ==
  IF evs = <<>> THEN <<>>
  ELSE LET before == BalanceCalculator(SubSeq(evs, 1, Len(evs) - 1), opening)
           prev == IF before = <<>> THEN opening
                   ELSE before[Len(before)].runningBalance
           e == evs[Len(evs)]
       IN  Append(before, BalanceSnapshot(e, prev + e.signedAmount))

\* No event yet: the calculator has run on the empty list.
LedgerInit ==
  /\ events = <<>>
  /\ openingBalance \in OpeningBalances
  /\ snapshots = BalanceCalculator(events, openingBalance)

\* The entity's balance now: that of the last snapshot, the opening balance
\* when there is none.
currentBalance ==
  IF snapshots = <<>> THEN openingBalance
  ELSE snapshots[Len(snapshots)].runningBalance

\* A further record of the entity arrives, no earlier than the last one; it
\* is normalised and the snapshots are computed again over the whole
\* ordered list.
RecordEvent(r) ==
  /\ Len(events) < MaxEvents
  /\ events # <<>> => events[Len(events)].timestamp <= r.timestamp
  /\ events' = Append(events, EventNormalizer(r))
  /\ snapshots' = BalanceCalculator(events', openingBalance)
  /\ UNCHANGED <<openingBalance, notLedgerVars>>

NextLedger == \E r \in LedgerRecords : RecordEvent(r)

InitLedger == LedgerInit /\ IdleButLedger

SpecLedger == InitLedger /\ [][NextLedger]_vars

(***************************************************************************)
(* The aging bucketizer.  The aging report's code is not among the         *)
(* sources, so the bucketizer is modelled from its description: four       *)
(* buckets by age in days, lower bound inclusive and upper bound           *)
(* exclusive, the first open below and the last open above.                *)
(***************************************************************************)
MaxItems == 3
Ages == {-1, 10, 29, 30, 45, 59, 60, 89, 90, 95}
OutstandingAmounts == {200, 300, 500}

\* An outstanding amount and its age in days on the report date.
OutstandingItems == [amount : OutstandingAmounts, ageDays : Ages]

BucketLabels == <<"current", "30-59", "60-89", "90+">>

\* The bounds of the buckets; the first has no lower bound (a negative
\* age is current) and the last no upper bound.
AgingBucketBounds ==
  [l \in {BucketLabels[i] : i \in 1..4} |->
     CASE l = "current" -> [lowerBoundDays |-> 0, upperBoundDays |-> 30]
       [] l = "30-59" -> [lowerBoundDays |-> 30, upperBoundDays |-> 60]
       [] l = "60-89" -> [lowerBoundDays |-> 60, upperBoundDays |-> 90]
       [] l = "90+" -> [lowerBoundDays |-> 90, upperBoundDays |-> 90]]

\* A bucket test whose upper bound is inclusive too.
InBucketClosed(label, age) ==
  /\ label = "current" \/ age >= AgingBucketBounds[label].lowerBoundDays
  /\ label = "90+" \/ age <= AgingBucketBounds[label].upperBoundDays

\* A bucket test that gives the first bucket a lower bound of 0 days.
InBucketFromZero(label, age) ==
  /\ age >= AgingBucketBounds[label].lowerBoundDays
  /\ label = "90+" \/ age < AgingBucketBounds[label].upperBoundDays

\* The bucket test: lower bound inclusive, upper bound exclusive.
InBucket(label, age) ==
  /\ label = "current" \/ age >= AgingBucketBounds[label].lowerBoundDays
  /\ label = "90+" \/ age < AgingBucketBounds[label].upperBoundDays

RECURSIVE SumOutstanding(_)
SumOutstanding(items) ==
  IF items = <<>> THEN 0
  ELSE items[1].amount + SumOutstanding(Tail(items))

\* The bucketizer: one AgingBucket per label, in order, with the total of
\* the amounts whose age falls in it.
Bucketizer(items) ==
  [i \in 1..4 |->
     [label |-> BucketLabels[i],
      lowerBoundDays |-> AgingBucketBounds[BucketLabels[i]].lowerBoundDays,
      upperBoundDays |-> AgingBucketBounds[BucketLabels[i]].upperBoundDays,
      amount |-> SumOutstanding(
                   SelectSeq(items,
                             LAMBDA it : InBucket(BucketLabels[i], it.ageDays)))]]

AgingInit ==
  /\ outstanding = <<>>
  /\ buckets = Bucketizer(<<>>)

\* A further outstanding amount enters the report; the buckets are
\* computed again over all of them.
AddOutstanding(item) ==
  /\ Len(outstanding) < MaxItems
  /\ outstanding' = Append(outstanding, item)
  /\ buckets' = Bucketizer(outstanding')
  /\ UNCHANGED notAgingVars

NextAging == \E item \in OutstandingItems : AddOutstanding(item)

InitAging == AgingInit /\ IdleButAging

SpecAging == InitAging /\ [][NextAging]_vars

(***************************************************************************)
(* The text search of CustomerActivity and CustomerManagement.  Both pages *)
(* filter in a useEffect that runs again on every change of the search     *)
(* box; the type and date filters stay at their defaults here.             *)
(* CustomerManagement also defines handleApplyFilters, which no control of *)
(* the page calls: its predicate is a function of the same inputs.         *)
(***************************************************************************)
MaxTyped == 3
TypedChars == {"a", "b", "c", "X"}

ABCTransport ==
  <<"A", "B", "C", " ", "T", "r", "a", "n", "s", "p", "o", "r", "t">>
XYZCo == <<"X", "Y", "Z", " ", "C", "o">>

SearchPages == {"CustomerActivity", "CustomerManagement"}

\* The fetched records: activities have three required strings, customers a
\* required name and four optional strings.
Activities ==
  [customerName : {ABCTransport, XYZCo},
   referenceNumber : {<<"b", "X">>, <<"c">>},
   description : {<<>>, <<"a", "B">>}]
Customers ==
  [name : {ABCTransport, XYZCo},
   gstNumber : {None, Some(<<"c", "a">>)},
   contactPhone : {None, Some(<<"b", "X">>)},
   contactEmail : {None, Some(<<"a", "b">>)},
   address : {None, Some(<<"X", "c">>)}]
SearchRecords(p) == IF p = "CustomerActivity" THEN Activities ELSE Customers
SearchCompanions(p) ==
  IF p = "CustomerActivity"
    THEN {[customerName |-> XYZCo, referenceNumber |-> <<"c">>,
           description |-> <<>>]}
    ELSE {[name |-> XYZCo, gstNumber |-> None, contactPhone |-> None,
           contactEmail |-> None, address |-> None]}
SearchLists(p) ==
  {<<r>> : r \in SearchRecords(p)}
    \cup {<<r, q>> : r \in SearchRecords(p), q \in SearchCompanions(p)}

\* The filter useEffect of the page, with the other filters at "all".
SearchEffect(p, list, term) ==
  IF p = "CustomerActivity"
    THEN SelectSeq(list, LAMBDA r : CustomerActivityMatchesSearch(r, term))
    ELSE SelectSeq(list,
                   LAMBDA r : CustomerManagementEffectMatchesSearch(r, term))

\* CustomerManagement handleApplyFilters, with filterType at "all".
handleApplyFilters(list, term) ==
  SelectSeq(list, LAMBDA r : CustomerManagementApplyMatchesSearch(r, term))

\* The page has fetched its records; the box is empty and the effect has
\* run.
SearchInit ==
  /\ searchPage \in SearchPages
  /\ searched \in SearchLists(searchPage)
  /\ typed = <<>>
  /\ hit = SearchEffect(searchPage, searched, typed)

\* The user types a character in the search box: onSearchChange sets
\* searchTerm and the effect filters again.
TypeChar(c) ==
  /\ Len(typed) < MaxTyped
  /\ typed' = Append(typed, c)
  /\ hit' = SearchEffect(searchPage, searched, typed')
  /\ UNCHANGED <<searchPage, searched, notSearchVars>>

\* The user deletes the last character.
DeleteChar ==
  /\ typed # <<>>
  /\ typed' = SubSeq(typed, 1, Len(typed) - 1)
  /\ hit' = SearchEffect(searchPage, searched, typed')
  /\ UNCHANGED <<searchPage, searched, notSearchVars>>

\* handleClearFilters: setSearchTerm(""), and the effect filters again.
ClearSearch ==
  /\ typed' = <<>>
  /\ hit' = SearchEffect(searchPage, searched, typed')
  /\ UNCHANGED <<searchPage, searched, notSearchVars>>

NextSearch ==
  \/ \E c \in TypedChars : TypeChar(c)
  \/ DeleteChar
  \/ ClearSearch

InitSearch == SearchInit /\ IdleButSearch

SpecSearch == InitSearch /\ [][NextSearch]_vars

(***************************************************************************)
(* PriceManagement's Confirm Deletion dialog (specification SpecDelete).   *)
(* The trash button of a product row opens the dialog through              *)
(* handleDeleteConfirmation; the dialog's Delete button runs               *)
(* deleteItemMutation.  deleteProductMutation is defined by the page but   *)
(* nothing calls its mutate.  The server is not part of the sources: a     *)
(* request in flight may succeed or fail.                                  *)
(***************************************************************************)
MaxRequests == 2
ItemIds == {"id1", "id2", "id3"}
\* The type of the deleteType state.
DeleteTypes == {"product", "receivable", "payable"}
\* The types the page's calls of handleDeleteConfirmation pass.
CallSiteTypes == {"product"}

\* An endpoint is the pair of a collection path and an id.
\* deleteItemMutation's mutationFn: the endpoint it requests.
deleteItemEndpoint(type, itemId) ==
  IF type = "receivable" THEN <<"/api/receivables", itemId>>
  ELSE <<"/api/payables", itemId>>

\* deleteProductMutation's mutationFn: the endpoint it requests.
deleteProductEndpoint(id) == <<"/api/products", id>>

\* `/api/${deleteType}s`, the query key deleteItemMutation invalidates.
itemsQueryKey(type) ==
  IF type = None THEN "/api/nulls"
  ELSE CASE type[1] = "product" -> "/api/products"
         [] type[1] = "receivable" -> "/api/receivables"
         [] type[1] = "payable" -> "/api/payables"

DeleteInit ==
  /\ isDeleteDialogOpen = FALSE
  /\ itemToDelete = None
  /\ deleteType = None
  /\ inFlight = None
  /\ requests = <<>>
  /\ invalidated = {}

\* handleDeleteConfirmation(item, type).  The dialog is modal: the rows
\* under it take no click while it is open.
handleDeleteConfirmation(item, type) ==
  /\ ~isDeleteDialogOpen
  /\ itemToDelete' = Some(item)
  /\ deleteType' = Some(type)
  /\ isDeleteDialogOpen' = TRUE
  /\ UNCHANGED <<inFlight, requests, invalidated, notDeleteVars>>

\* The dialog's Cancel button (and its onOpenChange).
CancelDelete ==
  /\ isDeleteDialogOpen
  /\ isDeleteDialogOpen' = FALSE
  /\ UNCHANGED <<itemToDelete, deleteType, inFlight, requests, invalidated,
                 notDeleteVars>>

\* The dialog's Delete button: itemToDelete && deleteItemMutation.mutate(
\* itemToDelete.id).  It is disabled while the mutation is pending.  Each
\* request is logged with what the dialog had been opened for.
ConfirmDelete ==
  /\ isDeleteDialogOpen
  /\ inFlight = None
  /\ itemToDelete # None
  /\ Len(requests) < MaxRequests
  /\ IF deleteType = None
       THEN UNCHANGED <<inFlight, requests>>
       ELSE LET request ==
                  [endpoint |-> deleteItemEndpoint(deleteType[1],
                                                   itemToDelete[1]),
                   item |-> itemToDelete[1],
                   type |-> deleteType[1]]
            IN /\ inFlight' = Some(request)
               /\ requests' = Append(requests, request)
  /\ UNCHANGED <<isDeleteDialogOpen, itemToDelete, deleteType, invalidated,
                 notDeleteVars>>

\* deleteItemMutation's onSuccess.
DeleteSucceeded ==
  /\ inFlight # None
  /\ invalidated' = invalidated \cup {itemsQueryKey(deleteType)}
  /\ isDeleteDialogOpen' = FALSE
  /\ itemToDelete' = None
  /\ deleteType' = None
  /\ inFlight' = None
  /\ UNCHANGED <<requests, notDeleteVars>>

\* deleteItemMutation's onError: a toast, the dialog stays as it is.
DeleteFailed ==
  /\ inFlight # None
  /\ inFlight' = None
  /\ UNCHANGED <<isDeleteDialogOpen, itemToDelete, deleteType, requests,
                 invalidated, notDeleteVars>>

NextDelete ==
  \/ \E item \in ItemIds, type \in CallSiteTypes :
       handleDeleteConfirmation(item, type)
  \/ CancelDelete
  \/ ConfirmDelete
  \/ DeleteSucceeded
  \/ DeleteFailed

InitDelete == DeleteInit /\ IdleButDelete

SpecDelete == InitDelete /\ [][NextDelete]_vars

(***************************************************************************)
(* The admin panel (specification SpecAdmin).  useAuth and the server are  *)
(* not part of the sources: the signed-in user may change at any time, and *)
(* a request may be answered with success (any payload), with a non-ok     *)
(* status, or not at all (apiRequest throws).  A request is named by the   *)
(* function that sends it.  systemSettings, the forms and the dialogs are  *)
(* state no modelled step reads.                                           *)
(***************************************************************************)
MaxAdminLen == 1
MaxPending == 2
Roles == {"none", "admin", "cashier"}
UserIds == {"u1", "u2"}
StationRecords == [id : {"s1"}, name : {"n1", "n2"}]
Results == {"ok", "failed", "threw"}
NoId == "-"

Request(op, id) == [op |-> op, id |-> id]
\* GET /api/admin/users and GET /api/stations of the load effect.
LoadRequests == {Request("loadUsers", NoId), Request("loadStations", NoId)}

\* What the response to q can carry: the list, the created or the updated
\* record on success, and nothing the handlers read otherwise.
NoPayload ==
  [users |-> <<>>, user |-> NoId, stations |-> <<>>, station |-> NoId]
Payloads(q, result) ==
  IF result # "ok" THEN {NoPayload}
  ELSE CASE q.op \in {"loadUsers", "updateUser.refetch"} ->
              {[NoPayload EXCEPT !.users = l] :
                 l \in SeqsUpTo(UserIds, MaxAdminLen)}
         [] q.op = "loadStations" ->
              {[NoPayload EXCEPT !.stations = l] :
                 l \in SeqsUpTo(StationRecords, MaxAdminLen)}
         [] q.op = "handleCreateUser" ->
              {[NoPayload EXCEPT !.user = u] : u \in UserIds}
         [] q.op \in {"handleCreateStation", "handleUpdateStation"} ->
              {[NoPayload EXCEPT !.station = st] : st \in StationRecords}
         [] OTHER -> {NoPayload}

\* A load effect without the role check.
shouldLoadAlways(r) == TRUE

\* The load effect's condition: user?.role === 'admin'.
shouldLoad(r) == r = "admin"

\* What the component returns: the access check, then the loading check.
adminView ==
  IF role # "admin" THEN "denied"
  ELSE IF loading THEN "loading"
  ELSE "panel"

\* Handlers that change the list whatever the response is.
usersAfterIgnoringStatus(prev, q, result, data) ==
  CASE q.op \in {"loadUsers", "updateUser.refetch"} -> data.users
    [] q.op = "handleCreateUser" -> Append(prev, data.user)
    [] q.op = "handleDeleteUser" -> SelectSeq(prev, LAMBDA u : u # q.id)
    [] OTHER -> prev

\* The users list after request q is answered with result.
usersAfter(prev, q, result, data) ==
  IF result # "ok" THEN prev
  ELSE CASE q.op \in {"loadUsers", "updateUser.refetch"} -> data.users
         [] q.op = "handleCreateUser" -> Append(prev, data.user)
         [] q.op = "handleDeleteUser" -> SelectSeq(prev, LAMBDA u : u # q.id)
         [] OTHER -> prev

\* The stations list after request q is answered with result.
stationsAfter(prev, q, result, data) ==
  IF result # "ok" THEN prev
  ELSE CASE q.op = "loadStations" -> data.stations
         [] q.op = "handleCreateStation" -> Append(prev, data.station)
         [] q.op = "handleUpdateStation" ->
              [i \in 1..Len(prev) |->
                 IF prev[i].id = q.id THEN data.station ELSE prev[i]]
         [] q.op = "handleDeleteStation" ->
              SelectSeq(prev, LAMBDA st : st.id # q.id)
         [] OTHER -> prev

\* The mount: the load effect runs for the user signed in at that moment.
AdminInit ==
  /\ role \in Roles
  /\ users = <<>>
  /\ stations = <<>>
  /\ loading = TRUE
  /\ pending = IF shouldLoad(role) THEN LoadRequests ELSE {}

\* useAuth returns another user: the load effect runs again.
SetUser(r) ==
  /\ r # role
  /\ role' = r
  /\ pending' = IF shouldLoad(r) THEN pending \cup LoadRequests ELSE pending
  /\ UNCHANGED <<users, stations, loading, notAdminVars>>

\* A handler of the panel sends its request; the lists wait for the answer.
\* The buttons exist only in the panel view.
Send(q) ==
  /\ adminView = "panel"
  /\ Cardinality(pending) < MaxPending
  /\ pending' = pending \cup {q}
  /\ UNCHANGED <<role, users, stations, loading, notAdminVars>>

handleCreateUser ==
  Len(users) < MaxAdminLen /\ Send(Request("handleCreateUser", NoId))

\* The Approve, Reject and Save buttons of a listed user.
updateUser(userId) ==
  (\E i \in 1..Len(users) : users[i] = userId)
  /\ Send(Request("updateUser", userId))

\* confirm() answered with OK.
handleDeleteUser(userId) ==
  (\E i \in 1..Len(users) : users[i] = userId)
  /\ Send(Request("handleDeleteUser", userId))

handleCreateStation ==
  Len(stations) < MaxAdminLen /\ Send(Request("handleCreateStation", NoId))

handleUpdateStation(stationId) ==
  (\E i \in 1..Len(stations) : stations[i].id = stationId)
  /\ Send(Request("handleUpdateStation", stationId))

\* confirm() answered with OK.
handleDeleteStation(stationId) ==
  (\E i \in 1..Len(stations) : stations[i].id = stationId)
  /\ Send(Request("handleDeleteStation", stationId))

\* The rest of an async function after its await: request q is answered.
\* updateUser, answered with success, sends its refetch of the users list;
\* loadStations clears loading in its finally block.
Respond(q, result, data) ==
  /\ q \in pending
  /\ users' = usersAfter(users, q, result, data)
  /\ stations' = stationsAfter(stations, q, result, data)
  /\ loading' = IF q.op = "loadStations" THEN FALSE ELSE loading
  /\ pending' =
       (pending \ {q})
         \cup IF q.op = "updateUser" /\ result = "ok"
                THEN {Request("updateUser.refetch", NoId)}
                ELSE {}
  /\ UNCHANGED <<role, notAdminVars>>

\* The server answers one of the pending requests.
Answered ==
  \E q \in pending : \E result \in Results :
    \E data \in Payloads(q, result) : Respond(q, result, data)

NextAdmin ==
  \/ \E r \in Roles : SetUser(r)
  \/ handleCreateUser
  \/ \E u \in UserIds : updateUser(u)
  \/ \E u \in UserIds : handleDeleteUser(u)
  \/ handleCreateStation
  \/ \E st \in StationRecords : handleUpdateStation(st.id)
  \/ \E st \in StationRecords : handleDeleteStation(st.id)
  \/ Answered

InitAdmin == AdminInit /\ IdleButAdmin

SpecAdmin == InitAdmin /\ [][NextAdmin]_vars

(***************************************************************************)
(* The theme (specification SpecTheme): ThemeBootstrap of the application  *)
(* shell and the theme controls of the Settings page.  A class is a tuple: *)
(* <<"dark">>, or <<"theme-", name>> for the template `theme-${name}`.     *)
(***************************************************************************)
ThemeNames ==
  {"ocean", "forest", "sunset", "rose", "lavender", "mint", "slate", "amber",
   "crimson", "indigo", "teal", "chocolate"}
DarkClass == <<"dark">>
ThemeClass(name) == <<"theme-", name>>
\* The classes ThemeBootstrap and the Light button remove.
AllThemeClasses == {DarkClass} \cup {ThemeClass(n) : n \in ThemeNames}

\* ThemeBootstrap's effect on the classes of the root element.
ThemeBootstrap(classes, savedTheme, matches) ==
  LET cleared == classes \ AllThemeClasses
  IN IF savedTheme = Some("dark") \/ (savedTheme = None /\ matches)
       THEN cleared \cup {DarkClass}
     ELSE IF savedTheme # None /\ savedTheme # Some("light")
       THEN cleared \cup {ThemeClass(savedTheme[1])}
     ELSE cleared

\* The first load in a browser that holds no 'theme' key.
ThemeInit ==
  /\ storedTheme = None
  /\ prefersDark \in BOOLEAN
  /\ rootClasses = ThemeBootstrap({}, None, prefersDark)
  /\ isDarkMode = FALSE
  /\ settingsOpen = FALSE

\* A page load: a new document, then ThemeBootstrap's effect.
PageLoad ==
  /\ rootClasses' = ThemeBootstrap({}, storedTheme, prefersDark)
  /\ isDarkMode' = FALSE
  /\ settingsOpen' = FALSE
  /\ UNCHANGED <<storedTheme, prefersDark, notThemeVars>>

\* The user changes the color scheme of the operating system; nothing in
\* the application listens to it.
PreferenceChanged ==
  /\ prefersDark' = ~prefersDark
  /\ UNCHANGED <<storedTheme, rootClasses, isDarkMode, settingsOpen,
                 notThemeVars>>

\* The Settings page mounts: isDarkMode is read from the root element.
OpenSettings ==
  /\ ~settingsOpen
  /\ settingsOpen' = TRUE
  /\ isDarkMode' = (DarkClass \in rootClasses)
  /\ UNCHANGED <<storedTheme, rootClasses, prefersDark, notThemeVars>>

\* The user leaves the Settings page.
CloseSettings ==
  /\ settingsOpen
  /\ settingsOpen' = FALSE
  /\ isDarkMode' = FALSE
  /\ UNCHANGED <<storedTheme, rootClasses, prefersDark, notThemeVars>>

\* The dark mode switch.
toggleDarkMode ==
  /\ settingsOpen
  /\ LET newDarkMode == ~isDarkMode
     IN /\ isDarkMode' = newDarkMode
        /\ IF newDarkMode
             THEN /\ rootClasses' = rootClasses \cup {DarkClass}
                  /\ storedTheme' = Some("dark")
             ELSE /\ rootClasses' = rootClasses \ {DarkClass}
                  /\ storedTheme' = Some("light")
  /\ UNCHANGED <<settingsOpen, prefersDark, notThemeVars>>

\* The Light button.
LightButton ==
  /\ settingsOpen
  /\ storedTheme' = Some("light")
  /\ rootClasses' = rootClasses \ AllThemeClasses
  /\ isDarkMode' = FALSE
  /\ UNCHANGED <<settingsOpen, prefersDark, notThemeVars>>

\* The Dark button.
DarkButton ==
  /\ settingsOpen
  /\ storedTheme' = Some("dark")
  /\ rootClasses' =
       (rootClasses \ (AllThemeClasses \ {DarkClass})) \cup {DarkClass}
  /\ isDarkMode' = TRUE
  /\ UNCHANGED <<settingsOpen, prefersDark, notThemeVars>>

\* The button of a named theme: Ocean, Forest, ..., Chocolate.
ThemeButton(name) ==
  /\ settingsOpen
  /\ storedTheme' = Some(name)
  /\ rootClasses' =
       (rootClasses \ (AllThemeClasses \ {ThemeClass(name)}))
         \cup {ThemeClass(name)}
  /\ isDarkMode' = FALSE
  /\ UNCHANGED <<settingsOpen, prefersDark, notThemeVars>>

NextTheme ==
  \/ PageLoad
  \/ PreferenceChanged
  \/ OpenSettings
  \/ CloseSettings
  \/ toggleDarkMode
  \/ LightButton
  \/ DarkButton
  \/ \E name \in ThemeNames : ThemeButton(name)

InitTheme == ThemeInit /\ IdleButTheme

SpecTheme == InitTheme /\ [][NextTheme]_vars

(***************************************************************************)
(* SalesHistory's draft sales (specification SpecDrafts).  The point of    *)
(* sale page, which writes the two localStorage keys, is not part of the   *)
(* sources: the page may find any stored text at its first load.  A stored *)
(* text is the JSON of a value, or text JSON.parse throws on.              *)
(***************************************************************************)
MaxDrafts == 2
Timestamps == {"t1", "t2"}
\* Date.now() at a load.
Clock == {"t3"}
DraftId(t) == <<"draft-", t>>
DraftSales == [id : {DraftId(t) : t \in Timestamps}]
\* The legacy single draft: its timestamp may be missing.
LegacyDrafts == [timestamp : {None} \cup {Some(t) : t \in Timestamps}]

JSONstringify(value) == [valid |-> TRUE, value |-> value]
Corrupt == [valid |-> FALSE, value |-> <<>>]
JSONthrows(text) == ~text.valid
JSONparse(text) == text.value

StoredAll ==
  {None, Some(Corrupt)}
    \cup {Some(JSONstringify(l)) : l \in SeqsUpTo(DraftSales, MaxDrafts)}
StoredSingle ==
  {None, Some(Corrupt)} \cup {Some(JSONstringify(d)) : d \in LegacyDrafts}

\* loadDrafts with draftSales at its useState default: the list it leaves in
\* state and the value it leaves under 'allPosDrafts'.  An exception is
\* caught and logged.
loadDrafts(allDrafts, singleDraft, now) ==
  IF allDrafts # None
    THEN IF JSONthrows(allDrafts[1])
           THEN [draftSales |-> <<>>, allPosDrafts |-> allDrafts]
           ELSE [draftSales |-> JSONparse(allDrafts[1]),
                 allPosDrafts |-> allDrafts]
  ELSE IF singleDraft # None
    THEN IF JSONthrows(singleDraft[1])
           THEN [draftSales |-> <<>>, allPosDrafts |-> allDrafts]
           ELSE LET draft == JSONparse(singleDraft[1])
                    draftSale ==
                      [id |-> DraftId(IF draft.timestamp # None
                                        THEN draft.timestamp[1] ELSE now)]
                IN [draftSales |-> <<draftSale>>,
                    allPosDrafts |-> Some(JSONstringify(<<draftSale>>))]
  ELSE [draftSales |-> <<>>, allPosDrafts |-> allDrafts]

\* A confirmDeleteDraft that forgets the legacy key.
storageAfterDeleteKeepingLegacy(updatedDrafts, single) ==
  IF Len(updatedDrafts) > 0
    THEN [allPosDrafts |-> Some(JSONstringify(updatedDrafts)),
          posDraft |-> single]
    ELSE [allPosDrafts |-> None, posDraft |-> single]

\* confirmDeleteDraft's update of localStorage.
storageAfterDelete(updatedDrafts, single) ==
  IF Len(updatedDrafts) > 0
    THEN [allPosDrafts |-> Some(JSONstringify(updatedDrafts)),
          posDraft |-> single]
    ELSE [allPosDrafts |-> None, posDraft |-> None]

\* The mount effect has run on what localStorage held.
DraftInit ==
  /\ posDraft \in StoredSingle
  /\ \E stored \in StoredAll, now \in Clock :
       LET out == loadDrafts(stored, posDraft, now)
       IN /\ draftSales = out.draftSales
          /\ allPosDrafts = out.allPosDrafts
  /\ draftToDelete = None
  /\ draftDeleteConfirmOpen = FALSE
  /\ showDrafts = TRUE
  /\ deletedDrafts = {}

\* A fresh load of the page: the component state is new, loadDrafts runs.
ReloadPage ==
  /\ \E now \in Clock :
       LET out == loadDrafts(allPosDrafts, posDraft, now)
       IN /\ draftSales' = out.draftSales
          /\ allPosDrafts' = out.allPosDrafts
  /\ draftToDelete' = None
  /\ draftDeleteConfirmOpen' = FALSE
  /\ showDrafts' = TRUE
  /\ UNCHANGED <<posDraft, deletedDrafts, notDraftVars>>

\* The Show Drafts / Hide Drafts button.
ToggleShowDrafts ==
  /\ ~draftDeleteConfirmOpen
  /\ showDrafts' = ~showDrafts
  /\ UNCHANGED <<allPosDrafts, posDraft, draftSales, draftToDelete,
                 draftDeleteConfirmOpen, deletedDrafts, notDraftVars>>

\* The trash button of a listed draft.
handleDeleteDraft(draftId) ==
  /\ showDrafts
  /\ ~draftDeleteConfirmOpen
  /\ \E i \in 1..Len(draftSales) : draftSales[i].id = draftId
  /\ draftToDelete' = Some(draftId)
  /\ draftDeleteConfirmOpen' = TRUE
  /\ UNCHANGED <<allPosDrafts, posDraft, draftSales, showDrafts,
                 deletedDrafts, notDraftVars>>

\* The confirmation's onClose.
CloseDraftConfirmation ==
  /\ draftDeleteConfirmOpen
  /\ draftDeleteConfirmOpen' = FALSE
  /\ UNCHANGED <<allPosDrafts, posDraft, draftSales, draftToDelete,
                 showDrafts, deletedDrafts, notDraftVars>>

\* The confirmation's onConfirm.
confirmDeleteDraft ==
  /\ draftDeleteConfirmOpen
  /\ IF draftToDelete # None
       THEN LET updatedDrafts ==
                  SelectSeq(draftSales, LAMBDA d : d.id # draftToDelete[1])
                stored == storageAfterDelete(updatedDrafts, posDraft)
            IN /\ draftSales' = updatedDrafts
               /\ allPosDrafts' = stored.allPosDrafts
               /\ posDraft' = stored.posDraft
               /\ draftDeleteConfirmOpen' = FALSE
               /\ draftToDelete' = None
               /\ deletedDrafts' = deletedDrafts \cup {draftToDelete[1]}
       ELSE UNCHANGED <<allPosDrafts, posDraft, draftSales, draftToDelete,
                        draftDeleteConfirmOpen, deletedDrafts>>
  /\ UNCHANGED <<showDrafts, notDraftVars>>

NextDrafts ==
  \/ ReloadPage
  \/ ToggleShowDrafts
  \/ \E t \in Timestamps \cup Clock : handleDeleteDraft(DraftId(t))
  \/ CloseDraftConfirmation
  \/ confirmDeleteDraft

InitDrafts == DraftInit /\ IdleButDrafts

SpecDrafts == InitDrafts /\ [][NextDrafts]_vars

(***************************************************************************)
(* Properties of the report pages (specification Spec).                    *)
(***************************************************************************)

\* C1: on CustomerActivity and ExpenseManagement, whenever fromDate and
\* toDate are both set and fromDate > toDate, the filter run ends without an
\* exception and leaves the empty list, whatever the source list, the search
\* text and the type filter are.
C1_ImpossibleRangeIsEmpty ==
  ( /\ page \in {"CustomerActivity", "ExpenseManagement"}
    /\ loaded
    /\ fromDate # NoBound /\ toDate # NoBound /\ fromDate > toDate )
  => (outcome = "ok" /\ filtered = <<>>)

\* The date rule of the specification on a record's calendar day: inclusive
\* on both bounds when both are set, one-sided when one is, none otherwise.
DatePassesRule(day, f) ==
  IF f.fromDate # NoBound /\ f.toDate # NoBound
    THEN f.fromDate <= day /\ day <= f.toDate
  ELSE IF f.fromDate # NoBound THEN day >= f.fromDate
  ELSE IF f.toDate # NoBound THEN day <= f.toDate
  ELSE TRUE

\* C4: on ExpenseManagement and SalesHistory, a fetched record with a valid
\* date passes the page's date filter exactly when its calendar day passes
\* the date rule under the current bounds.
C4_DateFilterInclusiveByDay ==
  page \in {"ExpenseManagement", "SalesHistory"}
  => \A i \in 1..Len(source) :
       source[i].date \in Instants
       => ( PageMatchesDateRange(page, source[i], FilterSpec)
            <=> DatePassesRule(isoDay(source[i].date), FilterSpec) )

\* C5: no filter run raises an exception, whatever the records and the
\* filter inputs are.
C5_FilterNeverThrows == outcome = "ok"

\* The list without its records of unparseable date.
WithoutBadDates(list) == SelectSeq(list, LAMBDA r : r.date # BadDate)

\* C6: on CustomerActivity and SalesHistory, the page's filter run on the
\* fetched list raises nothing and selects what it selects on the list
\* without the records whose date cannot be parsed.
C6_UnparseableDateIsExcluded ==
  page \in {"CustomerActivity", "SalesHistory"}
  => /\ ~FilterThrows(page, source, FilterSpec)
     /\ Filter(page, source, FilterSpec)
          = Filter(page, WithoutBadDates(source), FilterSpec)

\* C7: every row a mounted page displays is a record of the current source
\* list.
C7_DisplayedRowsAreSourceRecords ==
  Mounted => \A i \in 1..Len(displayed) :
               \E j \in 1..Len(source) : source[j] = displayed[i]

\* The summary cards the page has aggregate exactly the list the filter
\* left: the count and the total on SalesHistory and PurchaseOrders, the
\* totals by type on CustomerActivity.
SummaryOver(list) ==
  /\ page \in {"SalesHistory", "PurchaseOrders"}
       => /\ summaryCount = Len(list)
          /\ summaryTotal = SumAmounts(list)
  /\ page = "CustomerActivity"
       => \A k \in Kinds : summaryByType[k] = SumAmounts(OfKind(list, k))

\* C8: on CustomerActivity, PurchaseOrders and SalesHistory, once the page's
\* filter has run (the effect, the render, or the Filter button), the
\* summary's count, total and per-type totals are those of the filtered
\* list.
C8_SummaryIsOverFilteredSubset ==
  [][ ( /\ page \in {"CustomerActivity", "PurchaseOrders", "SalesHistory"}
        /\ outcome' = "ok"
        /\ (ApplyFilters \/ page \in EffectPages \cup RenderPages) )
      => SummaryOver(filtered)' ]_vars

\* C10: on CustomerActivity and PaymentHistory, the filtered list is the
\* list the other criteria select, less every record whose type differs from
\* a type filter other than "all".
C10_TypeFilterIsExactOrAll ==
  ( /\ page \in {"CustomerActivity", "PaymentHistory"}
    /\ loaded
    /\ outcome = "ok" )
  => filtered =
       SelectSeq(Filter(page, source, [FilterSpec EXCEPT !.typeFilter = "all"]),
                 LAMBDA r : typeFilter = "all" \/ r.kind = typeFilter)

\* The sum of the signed amounts of the events.
RECURSIVE SumSigned(_)
SumSigned(evs) ==
  IF evs = <<>> THEN 0 ELSE evs[1].signedAmount + SumSigned(Tail(evs))

\* C2: after every recorded event the snapshots follow the events one to
\* one; each running balance is the one before it (the opening balance for
\* the first) plus the event's signed amount, hence the opening balance plus
\* the sum of the signed amounts up to that event, and the last one is the
\* opening balance plus the sum of all signed amounts.
C2_RunningBalanceIsFold ==
  /\ Len(snapshots) = Len(events)
  /\ \A i \in 1..Len(events) :
       /\ snapshots[i].afterEvent = events[i]
       /\ snapshots[i].runningBalance
            = (IF i = 1 THEN openingBalance
                        ELSE snapshots[i - 1].runningBalance)
              + events[i].signedAmount
       /\ snapshots[i].runningBalance
            = openingBalance + SumSigned(SubSeq(events, 1, i))
  /\ events # <<>>
       => snapshots[Len(snapshots)].runningBalance
            = openingBalance + SumSigned(events)

\* The example of C2: 100, -40, 25 from an opening balance of 0.
C2_Witness ==
  /\ openingBalance = 0
  /\ [i \in 1..Len(events) |-> events[i].signedAmount] = <<100, -40, 25>>
  /\ [i \in 1..Len(events) |-> events[i].timestamp] = <<1, 2, 3>>
  /\ [i \in 1..Len(snapshots) |-> snapshots[i].runningBalance]
       = <<100, 60, 85>>

\* C3: the amounts of the four buckets sum to the sum of the outstanding
\* amounts, and every outstanding amount falls in exactly one bucket.
C3_BucketsPartitionOutstanding ==
  /\ Len(buckets) = 4
  /\ buckets[1].amount + buckets[2].amount + buckets[3].amount
       + buckets[4].amount = SumOutstanding(outstanding)
  /\ \A k \in 1..Len(outstanding) :
       Cardinality({i \in 1..4 :
                      InBucket(buckets[i].label, outstanding[k].ageDays)}) = 1

\* The example of C3: 500 at 10 days, 300 at 45 days, 200 at 95 days.
C3_Witness ==
  /\ outstanding = <<[amount |-> 500, ageDays |-> 10],
                     [amount |-> 300, ageDays |-> 45],
                     [amount |-> 200, ageDays |-> 95]>>
  /\ [i \in 1..4 |-> buckets[i].label] = BucketLabels
  /\ [i \in 1..4 |-> buckets[i].amount] = <<500, 300, 0, 200>>

\* Two characters are the same letter, whatever their case.
SameLetter(a, b) ==
  \/ a = b
  \/ \E k \in 1..Len(Upper) :
       \/ Upper[k] = a /\ Lower[k] = b
       \/ Upper[k] = b /\ Lower[k] = a

\* The text occurs in the string as a contiguous run, case ignored.
ContainsIgnoringCase(s, text) ==
  \E i \in 0..(Len(s) - Len(text)) :
     \A j \in 1..Len(text) : SameLetter(s[i + j], text[j])

\* The strings held by the optional fields that are present.
Present(fields) == {o[1] : o \in {x \in fields : x # None}}

\* The string fields each piece of code searches.
ActivityFields(r) == {r.customerName, r.referenceNumber, r.description}
CustomerEffectFields(r) ==
  {r.name} \cup Present({r.gstNumber, r.contactPhone})
CustomerApplyFields(r) ==
  {r.name} \cup Present({r.gstNumber, r.contactPhone, r.contactEmail,
                         r.address})

\* C9: the records the text filter keeps are exactly those with a searched
\* string field that contains the search text, case ignored; this holds of
\* the filter effect of CustomerActivity and CustomerManagement and of
\* CustomerManagement's handleApplyFilters.
C9_TextFilterIsCaseInsensitiveSubstring ==
  /\ searchPage = "CustomerActivity"
       => hit = SelectSeq(searched,
                  LAMBDA r : \E s \in ActivityFields(r) :
                               ContainsIgnoringCase(s, typed))
  /\ searchPage = "CustomerManagement"
       => /\ hit = SelectSeq(searched,
                     LAMBDA r : \E s \in CustomerEffectFields(r) :
                                  ContainsIgnoringCase(s, typed))
          /\ handleApplyFilters(searched, typed)
               = SelectSeq(searched,
                   LAMBDA r : \E s \in CustomerApplyFields(r) :
                                ContainsIgnoringCase(s, typed))

\* The example of C9: "abc" typed over ABC Transport and XYZ Co keeps only
\* ABC Transport.
C9_Witness ==
  /\ searchPage = "CustomerActivity"
  /\ typed = <<"a", "b", "c">>
  /\ Len(searched) = 2
  /\ searched[1].customerName = ABCTransport
  /\ searched[2].customerName = XYZCo
  /\ hit = <<searched[1]>>

\* C11: on the tank monitoring page, once the query has resolved with an
\* empty list, the grid is empty and every summary value (count, total
\* capacity, total stock, overall fill level) is zero.
C11_EmptySourceGivesZeros ==
  (~tanksLoading /\ tanks = <<>>)
  => /\ filteredTanks = <<>>
     /\ Len(filteredTanks) = 0
     /\ totalCapacity = 0
     /\ totalStock = 0
     /\ overallFillLevel = 0

\* C12: rendering never modifies the source list: after any sequence of
\* fetches and renders the query's array holds the records the server
\* returned, in the same order.
C12_SourceListIsNeverModified == history = fetchedHistory

\* A price history of three changes, not in date order, two of them of the
\* same product, rendered with its lastChange column.
C12_Witness ==
  /\ historyPage = "PriceManagement"
  /\ Len(fetchedHistory) = 3
  /\ fetchedHistory[1].entity = 1 /\ fetchedHistory[1].changeDate = 1
  /\ fetchedHistory[3].entity = 1 /\ fetchedHistory[3].changeDate = 2
  /\ lastRows[1] = Some(fetchedHistory[3])

\* C13: on ExpenseManagement and PriceManagement, a second run of the
\* filter (the effect, the Filter handler) on the same query data and the
\* same filter inputs leaves what the first run left.
C13_SecondRunGivesSameOutput ==
  [][ ( \/ page = "ExpenseManagement" /\ loaded'
        \/ page = "PriceManagement" /\ ApplyFilters )
      => ( LET again ==
                 IF page = "ExpenseManagement"
                   THEN EffectOutput(page, source, FilterSpec, filtered)
                   ELSE ApplyOutput(page, source, FilterSpec, filtered)
           IN again = [filtered |-> filtered, outcome |-> outcome] )' ]_vars

\* PriceManagement with a search text set, after Filter has kept one of two
\* products.
C13_Witness ==
  /\ page = "PriceManagement"
  /\ searchTerm # <<>>
  /\ Len(source) = 2
  /\ Len(filtered) = 1
  /\ filtered = Filter(page, source, FilterSpec)

\* The bucket of an age in days, by the stated boundaries: 1 current,
\* 2 30-59, 3 60-89, 4 90+.
BucketOfAge(a) ==
  IF a < 30 THEN 1 ELSE IF a < 60 THEN 2 ELSE IF a < 90 THEN 3 ELSE 4

\* C14: the buckets are current, 30-59, 60-89 and 90+ in this order, and
\* each holds the total of exactly the outstanding amounts whose age is
\* below 30 (negative ages included), from 30 to 59, from 60 to 89, and 90
\* or more.
C14_BucketBoundaries ==
  /\ [i \in 1..4 |-> buckets[i].label] = <<"current", "30-59", "60-89", "90+">>
  /\ \A i \in 1..4 :
       buckets[i].amount
         = SumOutstanding(SelectSeq(outstanding,
                                    LAMBDA it : BucketOfAge(it.ageDays) = i))

\* Amounts aged -1, 30 and 90 days: a future-dated one and two on a lower
\* boundary.
C14_Witness ==
  /\ [k \in 1..Len(outstanding) |-> outstanding[k].ageDays] = <<-1, 30, 90>>
  /\ buckets[1].amount = outstanding[1].amount
  /\ buckets[2].amount = outstanding[2].amount
  /\ buckets[3].amount = 0
  /\ buckets[4].amount = outstanding[3].amount

\* C15: the calculator yields one snapshot per event, so as many snapshots
\* as events; on no event it yields no snapshot and the balance is the
\* opening balance.
C15_OneSnapshotPerEvent ==
  /\ Len(snapshots) = Len(events)
  /\ \A i \in 1..Len(snapshots) : snapshots[i].afterEvent = events[i]
  /\ events = <<>> => (snapshots = <<>> /\ currentBalance = openingBalance)

\* Three events, one of them a decrease, from an opening balance of 50.
C15_Witness ==
  /\ openingBalance = 50
  /\ Len(events) = 3
  /\ events[2].signedAmount < 0
  /\ Len(snapshots) = 3

\* The last of an entity's events when they are taken in ascending order of
\* timestamp, equal timestamps in input order: the one of greatest
\* timestamp and, among those, the latest in the input.
LastInAscendingOrder(h, e) ==
  LET own == {i \in 1..Len(h) : h[i].entity = e}
  IN IF own = {} THEN None
     ELSE Some(h[CHOOSE i \in own :
                   \A j \in own :
                     \/ h[j].changeDate < h[i].changeDate
                     \/ h[j].changeDate = h[i].changeDate /\ j <= i])

\* C16: the events of a product (a pump) are taken in ascending order of
\* timestamp, equal timestamps in input order, so the lastChange
\* (lastReading) shown for it is the last event in that order.
C16_EventsInAscendingStableOrder ==
  historyPage \in HistoryPages
  => \A e \in Entities : lastRows[e] = LastInAscendingOrder(fetchedHistory, e)

C18_NoMatchShowsEmptyTable ==
  [][ ( /\ page = "SalesHistory"
        /\ ApplyFilters
        /\ ~FilterThrows(page, source, FilterSpec)
        /\ Filter(page, source, FilterSpec) = <<>> )
      => ( /\ displayed' = <<>>
           /\ summaryCount' = 0
           /\ summaryTotal' = 0 ) ]_vars

\* The endpoint of an item's type.
EndpointOfType(type, id) ==
  CASE type = "product" -> <<"/api/products", id>>
    [] type = "receivable" -> <<"/api/receivables", id>>
    [] type = "payable" -> <<"/api/payables", id>>

\* C19: on PriceManagement, every DELETE request sent by confirming a
\* deletion goes to the endpoint of the type the dialog was opened for:
\* /api/products/:id for a product, /api/receivables/:id for a receivable,
\* /api/payables/:id for a payable.
C19_DeleteGoesToEndpointOfType ==
  \A i \in 1..Len(requests) :
    requests[i].endpoint = EndpointOfType(requests[i].type, requests[i].item)

\* C20: on the pages whose filter follows its inputs (CustomerActivity,
\* ExpenseManagement, PaymentHistory, PurchaseOrders), with empty search
\* text, every select filter at "all" and no date bound, the filtered list
\* is the whole source list: no record is dropped for its missing searched
\* fields.
C20_DefaultFiltersKeepEverything ==
  ( /\ page \in EffectPages \cup RenderPages
    /\ loaded
    /\ outcome = "ok"
    /\ FilterSpec = DefaultFilters )
  => filtered = source

\* C21: on the pages whose filter follows its inputs, while fromDate, toDate
\* or both are set, no record of the filtered list is a record without a
\* date.
C21_UndatedRecordIsExcluded ==
  ( /\ page \in EffectPages \cup RenderPages
    /\ loaded
    /\ outcome = "ok"
    /\ (fromDate # NoBound \/ toDate # NoBound) )
  => \A i \in 1..Len(filtered) : filtered[i].date # NoDate

\* C22: on SalesHistory and ExpenseManagement, whatever the filter state,
\* the rows of a printed report are exactly the rows the table displays,
\* and so are the rows of SalesHistory's export.
C22_ReportRowsAreDisplayedRows ==
  ( /\ page \in {"SalesHistory", "ExpenseManagement"}
    /\ Mounted
    /\ loaded )
  => /\ dataToUse = displayed
     /\ page = "SalesHistory" => exportedRows = displayed

\* C23: after the Clear button, every filter input is at its default
\* (empty search text, "all", no date bound) and the displayed list is the
\* full source list.
C23_ClearRestoresEverything ==
  [][ ClearFilters
      => ( /\ FilterSpec' = DefaultFilters
           /\ displayed' = source' ) ]_vars

(***************************************************************************)
(* Properties of the admin panel (specification SpecAdmin).                *)
(***************************************************************************)

C25_ListsChangeOnlyOnSuccess ==
  [][ /\ (users' # users \/ stations' # stations)
           => \E q \in pending : \E data \in Payloads(q, "ok") :
                Respond(q, "ok", data)
      /\ (\E q \in pending : \E result \in Results \ {"ok"} :
             \E data \in Payloads(q, result) : Respond(q, result, data))
           => (users' = users /\ stations' = stations) ]_vars

\* A deletion of a listed user and an update of a listed station await
\* their answers.
C25_Witness ==
  /\ users # <<>>
  /\ stations # <<>>
  /\ Request("handleDeleteUser", users[1]) \in pending
  /\ Request("handleUpdateStation", stations[1].id) \in pending

(***************************************************************************)
(* Properties of the theme (specification SpecTheme).                      *)
(***************************************************************************)

\* The theme classes a stored 'theme' value selects.
SelectedClasses(stored) ==
  CASE stored = "light" -> {}
    [] stored = "dark" -> {DarkClass}
    [] OTHER -> {ThemeClass(stored)}

\* C26: after any sequence of page loads, dark-mode toggles and theme
\* buttons, the theme classes on the document root are those the stored
\* 'theme' value selects (none for light, only dark for dark, only
\* theme-<name> for a named theme), and there are never two of them.
C26_RootClassesFollowStoredTheme ==
  /\ storedTheme # None
       => rootClasses \cap AllThemeClasses = SelectedClasses(storedTheme[1])
  /\ Cardinality(rootClasses \cap AllThemeClasses) <= 1

(***************************************************************************)
(* Properties of the draft sales (specification SpecDrafts).               *)
(***************************************************************************)

\* C27: on SalesHistory, after any sequence of draft deletions, a fresh
\* page load would read from localStorage exactly the drafts the page lists
\* now, and no draft whose deletion was confirmed is among them.
C27_StoredDraftsAreListedDrafts ==
  \A now \in Clock :
    LET fresh == loadDrafts(allPosDrafts, posDraft, now).draftSales
    IN /\ fresh = draftSales
       /\ \A i \in 1..Len(fresh) : fresh[i].id \notin deletedDrafts

\* The last listed draft has been deleted: both keys are gone and no draft
\* is listed.
C27_Witness ==
  /\ deletedDrafts # {}
  /\ draftSales = <<>>
  /\ allPosDrafts = None
  /\ posDraft = None
  /\ draftToDelete = None

====
